---- MODULE Spec2Model ----
(***************************************************************************)
(* Model of tss-esapi/src/structures/pcr/select.rs: the PcrSlot bit flag   *)
(* enumeration, the PcrSelectSize enumeration, the PcrSelect aggregate and *)
(* the conversions between PcrSelect / PcrSlot and the TSS wire forms      *)
(* (TPMS_PCR_SELECT, u32, [u8; TPM2_PCR_SELECT_MAX]).                      *)
(*                                                                         *)
(* A u32 is represented by the set of positions (0..31) of its set bits,   *)
(* because the model checker's integers are signed 32 bit values that can  *)
(* not hold bit 31.  Bytes are integers 0..255, enum variants are strings, *)
(* and a Result is a record with the fields tag / value / kind.            *)
(***************************************************************************)
EXTENDS Integers, Sequences, FiniteSets, TLC

\* ------------------------------------------------------------------ bounds
\* longest slot list handed to PcrSelect::new (besides the two full lists)
MaxLen == 2
\* most bits set (or cleared, for the dense masks) in an enumerated u32
MaxBits == 2
\* size fields 0..MaxSizeField (and 255) are enumerated for sizeofSelect
MaxSizeField == 6

\* --------------------------------------------------------------- constants
\* length of TPMS_PCR_SELECT.pcrSelect; u32::to_le_bytes fixes it to 4
TPM2_PCR_SELECT_MAX == 4

\* -------------------------------------------------------- integer helpers
\* the byte with exactly the bits (taken modulo 8) of S set
RECURSIVE ByteOf(_)
ByteOf(S) ==
    IF S = {} THEN 0
    ELSE LET x == CHOOSE y \in S : TRUE
         IN  2^(x % 8) + ByteOf(S \ {x})

\* the set bits of a non-negative integer below 2^31 (an enum discriminant)
BitsOfInt(n) == {i \in 0..30 : (n \div 2^i) % 2 = 1}

\* ----------------------------------------------------------------- PcrSlot
\* #[repr(u32)] enum PcrSlot: variant name -> discriminant
SlotDiscriminant ==
    [Slot0  |-> 1,       Slot1  |-> 2,       Slot2  |-> 4,       Slot3  |-> 8,
     Slot4  |-> 16,      Slot5  |-> 32,      Slot6  |-> 64,      Slot7  |-> 128,
     Slot8  |-> 256,     Slot9  |-> 512,     Slot10 |-> 1024,    Slot11 |-> 2048,
     Slot12 |-> 4096,    Slot13 |-> 8192,    Slot14 |-> 16384,   Slot15 |-> 32768,
     Slot16 |-> 65536,   Slot17 |-> 131072,  Slot18 |-> 262144,  Slot19 |-> 524288,
     Slot20 |-> 1048576, Slot21 |-> 2097152, Slot22 |-> 4194304, Slot23 |-> 8388608]

PcrSlot == DOMAIN SlotDiscriminant

\* the variants in declaration order (what the derived BitFlags iterates over)
FLAG_LIST ==
    << "Slot0",  "Slot1",  "Slot2",  "Slot3",  "Slot4",  "Slot5",
       "Slot6",  "Slot7",  "Slot8",  "Slot9",  "Slot10", "Slot11",
       "Slot12", "Slot13", "Slot14", "Slot15", "Slot16", "Slot17",
       "Slot18", "Slot19", "Slot20", "Slot21", "Slot22", "Slot23" >>

\* impl From<PcrSlot> for u32: pcr_slot.bits()
SlotBits(pcr_slot) == BitsOfInt(SlotDiscriminant[pcr_slot])

\* the bits some variant defines (BitFlags::<PcrSlot>::all().bits())
ALL_BITS == UNION {SlotBits(s) : s \in PcrSlot}

\* ------------------------------------------------------------ Result values
InvalidParam == "InvalidParam"
UnsupportedParam == "UnsupportedParam"

Ok(v) == [tag |-> "Ok", value |-> v, kind |-> "none"]
Err(k, dflt) == [tag |-> "Err", value |-> dflt, kind |-> k]

\* variant: the raw bits are taken unchecked
BitFlagsTryFrom_unchecked(bits) == Ok(bits)

\* BitFlags::<PcrSlot>::try_from(u32): only defined bits may be set
BitFlagsTryFrom(bits) ==
    IF bits \ ALL_BITS = {} THEN Ok(bits) ELSE Err("FromBitsError", {})

\* BitFlags::iter(): the variants contained in the flags, in FLAG_LIST order
BitFlagsIter(bits) ==
    SelectSeq(FLAG_LIST, LAMBDA s : SlotBits(s) \subseteq bits)

\* variant: the iterator is not asked for a second slot
PcrSlotTryFromU32_first(pcr_slot) ==
    LET flags == BitFlagsTryFrom(pcr_slot) IN
    IF flags.tag = "Err" THEN Err(InvalidParam, "none")
    ELSE LET pcr_slots_iter == BitFlagsIter(flags.value) IN
         IF Len(pcr_slots_iter) = 0 THEN Err(InvalidParam, "none")
         ELSE Ok(Head(pcr_slots_iter))

\* impl TryFrom<u32> for PcrSlot
PcrSlotTryFromU32(pcr_slot) ==
    LET flags == BitFlagsTryFrom(pcr_slot) IN
    IF flags.tag = "Err" THEN Err(InvalidParam, "none")
    ELSE LET pcr_slots_iter == BitFlagsIter(flags.value) IN
         IF Len(pcr_slots_iter) = 0 THEN Err(InvalidParam, "none")
         ELSE IF Len(Tail(pcr_slots_iter)) = 0 THEN Ok(Head(pcr_slots_iter))
         ELSE Err(InvalidParam, "none")

\* variant: big-endian byte order
to_be_bytes(bits) ==
    [k \in 1..TPM2_PCR_SELECT_MAX |->
        ByteOf({i \in bits : i \div 8 = TPM2_PCR_SELECT_MAX - k})]

\* u32::to_le_bytes: byte k (1-based) holds bits 8(k-1) .. 8(k-1)+7
to_le_bytes(bits) ==
    [k \in 1..TPM2_PCR_SELECT_MAX |->
        ByteOf({i \in bits : i \div 8 = k - 1})]

\* variant: big-endian byte order
from_be_bytes(bytes) ==
    {i \in 0..(8 * TPM2_PCR_SELECT_MAX - 1) :
        (bytes[TPM2_PCR_SELECT_MAX - (i \div 8)] \div 2^(i % 8)) % 2 = 1}

\* u32::from_le_bytes
from_le_bytes(bytes) ==
    {i \in 0..(8 * TPM2_PCR_SELECT_MAX - 1) :
        (bytes[(i \div 8) + 1] \div 2^(i % 8)) % 2 = 1}

\* impl From<PcrSlot> for [u8; TPM2_PCR_SELECT_MAX]
PcrSlotIntoBytes(pcr_slot) == to_le_bytes(SlotBits(pcr_slot))

\* impl TryFrom<[u8; TPM2_PCR_SELECT_MAX]> for PcrSlot
PcrSlotTryFromBytes(tss_pcr_slot) == PcrSlotTryFromU32(from_le_bytes(tss_pcr_slot))

\* ----------------------------------------------------------- PcrSelectSize
PcrSelectSize == {"OneByte", "TwoBytes", "ThreeBytes", "FourBytes"}

\* variant: discriminants counted from zero
to_u8_zero_based(size) ==
    CASE size = "OneByte"    -> 0
      [] size = "TwoBytes"   -> 1
      [] size = "ThreeBytes" -> 2
      [] size = "FourBytes"  -> 3

\* derived ToPrimitive: the #[repr(u8)] discriminant
to_u8(size) ==
    CASE size = "OneByte"    -> 1
      [] size = "TwoBytes"   -> 2
      [] size = "ThreeBytes" -> 3
      [] size = "FourBytes"  -> 4

\* variant: discriminants counted from zero
from_u8_zero_based(n) ==
    CASE n = 0 -> [some |-> TRUE, v |-> "OneByte"]
      [] n = 1 -> [some |-> TRUE, v |-> "TwoBytes"]
      [] n = 2 -> [some |-> TRUE, v |-> "ThreeBytes"]
      [] n = 3 -> [some |-> TRUE, v |-> "FourBytes"]
      [] OTHER -> [some |-> FALSE, v |-> "none"]

\* derived FromPrimitive: Some(variant) for a discriminant, None otherwise
from_u8(n) ==
    CASE n = 1 -> [some |-> TRUE, v |-> "OneByte"]
      [] n = 2 -> [some |-> TRUE, v |-> "TwoBytes"]
      [] n = 3 -> [some |-> TRUE, v |-> "ThreeBytes"]
      [] n = 4 -> [some |-> TRUE, v |-> "FourBytes"]
      [] OTHER -> [some |-> FALSE, v |-> "none"]

\* impl Default for PcrSelectSize
PcrSelectSizeDefault == "ThreeBytes"

\* --------------------------------------------------------------- PcrSelect
\* variant: the flags of the list are toggled instead of or-ed
RECURSIVE Collect_toggle(_)
Collect_toggle(pcr_slots) ==
    IF pcr_slots = << >> THEN {}
    ELSE LET h == SlotBits(Head(pcr_slots))
             t == Collect_toggle(Tail(pcr_slots))
         IN  (h \ t) \cup (t \ h)

\* pcr_slots.iter().cloned().collect(): the flags of the list are or-ed
RECURSIVE Collect(_)
Collect(pcr_slots) ==
    IF pcr_slots = << >> THEN {}
    ELSE SlotBits(Head(pcr_slots)) \cup Collect(Tail(pcr_slots))

\* PcrSelect::new
PcrSelectNew(size_of_select, pcr_slots) ==
    [size_of_select |-> size_of_select, selected_pcrs |-> Collect(pcr_slots)]

\* PcrSelect::size_of_select
SizeOfSelect(self) == self.size_of_select

\* PcrSelect::selected_pcrs
SelectedPcrs(self) == BitFlagsIter(self.selected_pcrs)

\* stands in the value field of a failed Result<PcrSelect>
NoSelect == [size_of_select |-> "none", selected_pcrs |-> {}]

\* variant: the selection is converted before the size field
PcrSelectTryFrom_bits_first(tss_pcr_select) ==
    LET size  == from_u8(tss_pcr_select.sizeofSelect)
        flags == BitFlagsTryFrom(from_le_bytes(tss_pcr_select.pcrSelect))
    IN  IF flags.tag = "Err" THEN Err(UnsupportedParam, NoSelect)
        ELSE IF ~size.some THEN Err(InvalidParam, NoSelect)
        ELSE Ok([size_of_select |-> size.v, selected_pcrs |-> flags.value])

\* variant: only the bits of the first sizeofSelect bytes are kept
PcrSelectTryFrom_masked(tss_pcr_select) ==
    LET size  == from_u8(tss_pcr_select.sizeofSelect)
        flags == BitFlagsTryFrom(from_le_bytes(tss_pcr_select.pcrSelect))
    IN  IF ~size.some THEN Err(InvalidParam, NoSelect)
        ELSE IF flags.tag = "Err" THEN Err(UnsupportedParam, NoSelect)
        ELSE Ok([size_of_select |-> size.v,
                 selected_pcrs  |-> {i \in flags.value :
                                        i < 8 * tss_pcr_select.sizeofSelect}])

\* impl TryFrom<TPMS_PCR_SELECT> for PcrSelect: the size field is converted
\* first (and its error returned by `?`), the selection after it
PcrSelectTryFrom(tss_pcr_select) ==
    LET size  == from_u8(tss_pcr_select.sizeofSelect)
        flags == BitFlagsTryFrom(from_le_bytes(tss_pcr_select.pcrSelect))
    IN  IF ~size.some THEN Err(InvalidParam, NoSelect)
        ELSE IF flags.tag = "Err" THEN Err(UnsupportedParam, NoSelect)
        ELSE Ok([size_of_select |-> size.v, selected_pcrs |-> flags.value])

\* variant: only the first size_of_select bytes are written
PcrSelectInto_truncated(pcr_select) ==
    [sizeofSelect |-> to_u8(pcr_select.size_of_select),
     pcrSelect    |-> [k \in 1..TPM2_PCR_SELECT_MAX |->
                         IF k <= to_u8(pcr_select.size_of_select)
                           THEN to_le_bytes(pcr_select.selected_pcrs)[k]
                           ELSE 0]]

\* impl From<PcrSelect> for TPMS_PCR_SELECT
PcrSelectInto(pcr_select) ==
    [sizeofSelect |-> to_u8(pcr_select.size_of_select),
     pcrSelect    |-> to_le_bytes(pcr_select.selected_pcrs)]

\* ------------------------------------------------------------------ inputs
\* sets of at most n bit positions out of 0..31
RECURSIVE BitSetsUpTo(_)
BitSetsUpTo(n) ==
    IF n = 0 THEN {{}}
    ELSE LET P == BitSetsUpTo(n - 1)
         IN  P \cup {s \cup {b} : s \in P, b \in 0..31}

\* u32 inputs: sparse values, and values with all but a few of the low 24 or
\* of all 32 bits set
U32Inputs ==
    LET P == BitSetsUpTo(MaxBits)
    IN  P \cup {(0..31) \ s : s \in P} \cup {(0..23) \ s : s \in P}

ByteSamples == {0, 1, 2, 65, 128, 255}

\* byte arrays: every array over ByteSamples, and every array with a single
\* non-zero byte
ByteArrayInputs ==
    [1..TPM2_PCR_SELECT_MAX -> ByteSamples]
      \cup {[k \in 1..TPM2_PCR_SELECT_MAX |-> IF k = j THEN b ELSE 0] :
                j \in 1..TPM2_PCR_SELECT_MAX, b \in 0..255}

\* sizeofSelect is a u8
SizeFieldInputs == (0..MaxSizeField) \cup {255}

TssInputs == [sizeofSelect : SizeFieldInputs, pcrSelect : ByteArrayInputs]

RECURSIVE Reverse(_)
Reverse(q) == IF q = << >> THEN << >> ELSE Append(Reverse(Tail(q)), Head(q))

\* slot lists: every list of at most MaxLen slots (any order, repetitions),
\* and the full list, ascending and descending
SlotListInputs ==
    UNION {[1..n -> PcrSlot] : n \in 0..MaxLen}
      \cup {FLAG_LIST, Reverse(FLAG_LIST), FLAG_LIST \o Reverse(FLAG_LIST)}

\* ------------------------------------------------------------------- state
VARIABLES
    origin,           \* which input the caller started from
    op,               \* the last conversion performed
    size_arg,         \* size_of_select argument of PcrSelect::new
    pcr_slots,        \* pcr_slots argument of PcrSelect::new
    pcr_select,       \* Result<PcrSelect>: the value built or parsed
    tss_pcr_select,   \* TPMS_PCR_SELECT: the wire value given or produced
    pcr_slot,         \* Result<PcrSlot>: the slot given or parsed
    slot_u32,         \* u32 form of a slot, given or produced
    slot_bytes        \* [u8; TPM2_PCR_SELECT_MAX] form of a slot

vars == << origin, op, size_arg, pcr_slots, pcr_select, tss_pcr_select,
           pcr_slot, slot_u32, slot_bytes >>

ZeroBytes == [k \in 1..TPM2_PCR_SELECT_MAX |-> 0]
ZeroTss == [sizeofSelect |-> 0, pcrSelect |-> ZeroBytes]
NoResult(dflt) == [tag |-> "None", value |-> dflt, kind |-> "none"]

\* the caller holds one input: the arguments of PcrSelect::new, a
\* TPMS_PCR_SELECT, a PcrSlot, a u32 or a byte array; the rest is blank
Init ==
    /\ op = "start"
    /\ pcr_select = NoResult(NoSelect)
    /\ origin \in {"new", "tss", "slot", "u32", "bytes"}
    /\ IF origin = "new"
         THEN size_arg \in PcrSelectSize /\ pcr_slots \in SlotListInputs
         ELSE size_arg = PcrSelectSizeDefault /\ pcr_slots = << >>
    /\ IF origin = "tss"
         THEN tss_pcr_select \in TssInputs
         ELSE tss_pcr_select = ZeroTss
    /\ IF origin = "slot"
         THEN pcr_slot \in {Ok(s) : s \in PcrSlot}
         ELSE pcr_slot = NoResult("none")
    /\ IF origin = "u32" THEN slot_u32 \in U32Inputs ELSE slot_u32 = {}
    /\ IF origin = "bytes" THEN slot_bytes \in ByteArrayInputs
                           ELSE slot_bytes = ZeroBytes

slotVars == << pcr_slot, slot_u32, slot_bytes >>
selectArgs == << origin, size_arg, pcr_slots >>

\* PcrSelect::new(size_arg, &pcr_slots)
New ==
    /\ origin = "new" /\ op = "start"
    /\ pcr_select' = Ok(PcrSelectNew(size_arg, pcr_slots))
    /\ op' = "new"
    /\ UNCHANGED << selectArgs, tss_pcr_select, slotVars >>

\* PcrSelect::try_from(tss_pcr_select), on a given or a produced wire value
TryFromTss ==
    /\ \/ origin = "tss" /\ op = "start"
       \/ op = "into"
    /\ pcr_select' = PcrSelectTryFrom(tss_pcr_select)
    /\ op' = "try_from"
    /\ UNCHANGED << selectArgs, tss_pcr_select, slotVars >>

\* TPMS_PCR_SELECT::from(pcr_select), on a built, parsed or copied value
IntoTss ==
    /\ op \in {"new", "try_from", "copy"}
    /\ pcr_select.tag = "Ok"
    /\ tss_pcr_select' = PcrSelectInto(pcr_select.value)
    /\ op' = "into"
    /\ UNCHANGED << selectArgs, pcr_select, slotVars >>

\* #[derive(Copy, Clone)]: the copy is the value
CopySelect ==
    /\ op \in {"new", "try_from"}
    /\ pcr_select.tag = "Ok"
    /\ pcr_select' = pcr_select
    /\ op' = "copy"
    /\ UNCHANGED << selectArgs, tss_pcr_select, slotVars >>

selectVars == << size_arg, pcr_slots, pcr_select, tss_pcr_select >>

\* u32::from(pcr_slot)
SlotIntoU32 ==
    /\ op \in {"start", "slot_try_from_u32", "slot_try_from_bytes"}
    /\ origin \in {"slot", "u32", "bytes"}
    /\ pcr_slot.tag = "Ok"
    /\ slot_u32' = SlotBits(pcr_slot.value)
    /\ op' = "slot_into_u32"
    /\ UNCHANGED << origin, selectVars, pcr_slot, slot_bytes >>

\* <[u8; TPM2_PCR_SELECT_MAX]>::from(pcr_slot)
SlotIntoBytes ==
    /\ op \in {"start", "slot_try_from_u32", "slot_try_from_bytes"}
    /\ origin \in {"slot", "u32", "bytes"}
    /\ pcr_slot.tag = "Ok"
    /\ slot_bytes' = PcrSlotIntoBytes(pcr_slot.value)
    /\ op' = "slot_into_bytes"
    /\ UNCHANGED << origin, selectVars, pcr_slot, slot_u32 >>

\* PcrSlot::try_from(slot_u32), on a given or a produced u32
SlotTryFromU32 ==
    /\ \/ origin = "u32" /\ op = "start"
       \/ op = "slot_into_u32"
    /\ pcr_slot' = PcrSlotTryFromU32(slot_u32)
    /\ op' = "slot_try_from_u32"
    /\ UNCHANGED << origin, selectVars, slot_u32, slot_bytes >>

\* PcrSlot::try_from(slot_bytes), on a given or a produced byte array
SlotTryFromBytes ==
    /\ \/ origin = "bytes" /\ op = "start"
       \/ op = "slot_into_bytes"
    /\ pcr_slot' = PcrSlotTryFromBytes(slot_bytes)
    /\ op' = "slot_try_from_bytes"
    /\ UNCHANGED << origin, selectVars, slot_u32, slot_bytes >>

Next ==
    \/ New
    \/ TryFromTss
    \/ IntoTss
    \/ CopySelect
    \/ SlotIntoU32
    \/ SlotIntoBytes
    \/ SlotTryFromU32
    \/ SlotTryFromBytes

Spec == Init /\ [][Next]_vars

TypeOK ==
    /\ size_arg \in PcrSelectSize
    /\ pcr_select.tag \in {"None", "Ok", "Err"}
    /\ pcr_slot.tag \in {"None", "Ok", "Err"}
    /\ tss_pcr_select.sizeofSelect \in 0..255
    /\ \A k \in 1..TPM2_PCR_SELECT_MAX :
          tss_pcr_select.pcrSelect[k] \in 0..255 /\ slot_bytes[k] \in 0..255
    /\ slot_u32 \subseteq 0..31

\* ------------------------------------------------------ property vocabulary
Range(q) == {q[i] : i \in DOMAIN q}

\* bit j (0..7) of a byte
ByteBit(b, j) == (b \div 2^j) % 2

\* bit i (0..31) of the little-endian reading of a byte array
WireBit(bytes, i) == ByteBit(bytes[(i \div 8) + 1], i % 8)

\* the bit position a slot stands for, read off its discriminant
BitPositionTable ==
    [s \in PcrSlot |-> CHOOSE i \in 0..23 : SlotDiscriminant[s] = 2^i]
BitPosition(s) == BitPositionTable[s]

\* the bit positions set in the little-endian reading of a byte array
WireBits(bytes) == {i \in 0..31 : WireBit(bytes, i) = 1}

ValidSizeField(n) == n \in 1..4

\* the numeric value of a size variant, tabulated
SizeNumber(size) ==
    IF size = "OneByte" THEN 1 ELSE IF size = "TwoBytes" THEN 2
    ELSE IF size = "ThreeBytes" THEN 3 ELSE IF size = "FourBytes" THEN 4 ELSE 0

\* some bit at a position >= 24 is set in the wire bytes
UndefinedBitSet(bytes) == \E i \in 24..31 : WireBit(bytes, i) = 1

\* the slots a successfully built or parsed value reports
Selected == Range(SelectedPcrs(pcr_select.value))

\* C1: a PcrSelect built by PcrSelect::new, serialized and parsed back, parses
\* successfully to the value that was built: the size given to new and exactly
\* the slots of the list given to new.
C1_RoundTripSelection ==
    (origin = "new" /\ op = "try_from") =>
        /\ pcr_select.tag = "Ok"
        /\ SizeOfSelect(pcr_select.value) = size_arg
        /\ Selected = Range(pcr_slots)
        /\ pcr_select.value.selected_pcrs = {BitPosition(s) : s \in Range(pcr_slots)}

C1_Witness ==
    /\ origin = "new" /\ op = "try_from"
    /\ size_arg = "OneByte"
    /\ pcr_slots = << "Slot23", "Slot8" >>
    /\ pcr_select.tag = "Ok"
    /\ tss_pcr_select.pcrSelect = << 0, 1, 128, 0 >>

\* C2 (as stated): parsing a TPMS_PCR_SELECT whose bytes have a bit at a
\* position >= 24 set fails with UnsupportedParam whatever the size field is.
C2_Original ==
    (op = "try_from" /\ UndefinedBitSet(tss_pcr_select.pcrSelect)) =>
        (pcr_select.tag = "Err" /\ pcr_select.kind = UnsupportedParam)

\* C2 (amended): parsing a TPMS_PCR_SELECT whose bytes have a bit at a
\* position >= 24 set always fails; with UnsupportedParam when sizeofSelect is
\* in 1..=4, and with InvalidParam (the size error, raised first) otherwise.
C2_UndefinedBitRejected ==
    (op = "try_from" /\ UndefinedBitSet(tss_pcr_select.pcrSelect)) =>
        /\ pcr_select.tag = "Err"
        /\ pcr_select.value = NoSelect
        /\ pcr_select.kind =
              IF ValidSizeField(tss_pcr_select.sizeofSelect)
                THEN UnsupportedParam ELSE InvalidParam

C2_Witness ==
    /\ op = "try_from"
    /\ tss_pcr_select.sizeofSelect = 3
    /\ tss_pcr_select.pcrSelect = << 1, 0, 0, 128 >>
    /\ pcr_select.kind = UnsupportedParam

\* C3: parsing a TPMS_PCR_SELECT whose sizeofSelect is outside 1..4 fails with
\* InvalidParam and yields no PcrSelect; a size field inside 1..4 is never the
\* reason of a failure, and a successful parse has the size variant whose
\* numeric value is the wire size field.
C3_SizeFieldValidation ==
    (op = "try_from") =>
        /\ ~ValidSizeField(tss_pcr_select.sizeofSelect) =>
              /\ pcr_select.tag = "Err"
              /\ pcr_select.kind = InvalidParam
              /\ pcr_select.value = NoSelect
        /\ ValidSizeField(tss_pcr_select.sizeofSelect) =>
              pcr_select.kind # InvalidParam
        /\ pcr_select.tag = "Ok" =>
              /\ pcr_select.value.size_of_select \in PcrSelectSize
              /\ SizeNumber(pcr_select.value.size_of_select)
                    = tss_pcr_select.sizeofSelect

C3_Witness ==
    /\ op = "try_from"
    /\ tss_pcr_select.sizeofSelect = 5
    /\ tss_pcr_select.pcrSelect = << 1, 0, 0, 0 >>
    /\ pcr_select.tag = "Err" /\ pcr_select.kind = InvalidParam

\* C4: PcrSlot::try_from(u32) succeeds exactly when one bit is set and that
\* bit is below 24, returning the slot whose value is that bit; every other
\* input fails with InvalidParam.
C4_StrictSingleSlot ==
    (op = "slot_try_from_u32") =>
        LET single == Cardinality(slot_u32) = 1 /\ slot_u32 \subseteq 0..23
        IN  /\ (pcr_slot.tag = "Ok") <=> single
            /\ single =>
                  /\ pcr_slot.value \in PcrSlot
                  /\ \A i \in slot_u32 : SlotDiscriminant[pcr_slot.value] = 2^i
            /\ ~single =>
                  (pcr_slot.tag = "Err" /\ pcr_slot.kind = InvalidParam)

C4_Witness ==
    /\ origin = "u32" /\ op = "slot_try_from_u32"
    /\ slot_u32 = {3, 24}
    /\ pcr_slot.tag = "Err" /\ pcr_slot.kind = InvalidParam

\* C5: a defined PcrSlot converted to u32, or to its byte array, parses back
\* to the same slot.
C5_RoundTripSlot ==
    /\ (origin = "slot" /\ op = "slot_into_u32") =>
          (pcr_slot.tag = "Ok" /\ PcrSlotTryFromU32(slot_u32) = pcr_slot)
    /\ (origin = "slot" /\ op = "slot_into_bytes") =>
          (pcr_slot.tag = "Ok" /\ PcrSlotTryFromBytes(slot_bytes) = pcr_slot)

C5_Witness ==
    /\ origin = "slot" /\ op = "slot_into_bytes"
    /\ pcr_slot = Ok("Slot17")
    /\ slot_bytes = << 0, 0, 2, 0 >>

\* C6: a TPMS_PCR_SELECT parses successfully exactly when its size field is
\* in 1..4 and no bit >= 24 is set, and serializing the parsed value gives the
\* same size field and the same bytes; size 3 with zero bytes parses to the
\* empty selection and size 3 with bytes [1,0,0,0] to exactly Slot0.
C6_WireRoundTrip ==
    (op = "try_from") =>
        /\ (pcr_select.tag = "Ok") <=>
              /\ ValidSizeField(tss_pcr_select.sizeofSelect)
              /\ ~UndefinedBitSet(tss_pcr_select.pcrSelect)
        /\ pcr_select.tag = "Ok" =>
              PcrSelectInto(pcr_select.value) = tss_pcr_select
        /\ tss_pcr_select = [sizeofSelect |-> 3, pcrSelect |-> << 0, 0, 0, 0 >>] =>
              (pcr_select.tag = "Ok" /\ SelectedPcrs(pcr_select.value) = << >>)
        /\ tss_pcr_select = [sizeofSelect |-> 3, pcrSelect |-> << 1, 0, 0, 0 >>] =>
              (pcr_select.tag = "Ok" /\ SelectedPcrs(pcr_select.value) = << "Slot0" >>)

C6_Witness ==
    /\ origin = "tss" /\ op = "try_from"
    /\ tss_pcr_select = [sizeofSelect |-> 3, pcrSelect |-> << 0, 0, 0, 0 >>]
    /\ pcr_select.tag = "Ok"
    /\ pcr_select.value.selected_pcrs = {}

\* C7: PcrSelect::new always succeeds, size_of_select() is the size given,
\* selected_pcrs() lists each distinct slot of the input once, in ascending
\* bit position order, and nothing else; the stored selection is a function
\* of the set of input slots alone.
C7_ConstructionAccessors ==
    (op = "new") =>
        LET r == SelectedPcrs(pcr_select.value)
        IN  /\ pcr_select.tag = "Ok"
            /\ SizeOfSelect(pcr_select.value) = size_arg
            /\ Range(r) = Range(pcr_slots)
            /\ \A j, k \in DOMAIN r :
                  j < k => SlotDiscriminant[r[j]] < SlotDiscriminant[r[k]]
            /\ pcr_select.value.selected_pcrs
                  = {BitPosition(s) : s \in Range(pcr_slots)}

C7_Witness ==
    /\ op = "new"
    /\ pcr_slots = << "Slot9", "Slot9" >>
    /\ SelectedPcrs(pcr_select.value) = << "Slot9" >>

\* C8: serialization is defined for every PcrSelect, writes the numeric value
\* of the size into sizeofSelect, and sets bit j of byte k exactly when the
\* slot of bit 8k+j is selected.
C8_SerializationExact ==
    /\ pcr_select.tag = "Ok" =>
          pcr_select.value.size_of_select \in PcrSelectSize
    /\ (op = "into") =>
          /\ ValidSizeField(tss_pcr_select.sizeofSelect)
          /\ tss_pcr_select.sizeofSelect
                = SizeNumber(pcr_select.value.size_of_select)
          /\ DOMAIN tss_pcr_select.pcrSelect = 1..TPM2_PCR_SELECT_MAX
          /\ WireBits(tss_pcr_select.pcrSelect)
                = {BitPosition(s) : s \in Selected}

C8_Witness ==
    /\ origin = "new" /\ op = "into"
    /\ size_arg = "TwoBytes"
    /\ pcr_slots = << "Slot16", "Slot1" >>
    /\ tss_pcr_select = [sizeofSelect |-> 2, pcrSelect |-> << 2, 0, 1, 0 >>]

\* C9: the size is not checked against the selected bits: a parse with a
\* valid size field and only defined bits succeeds and keeps every slot, also
\* those at positions >= 8 * size; serialization writes every selected slot
\* back, also into bytes at index >= size; PcrSelect::new keeps every slot.
C9_NoCrossFieldCheck ==
    /\ (op = "try_from" /\ ValidSizeField(tss_pcr_select.sizeofSelect)
           /\ ~UndefinedBitSet(tss_pcr_select.pcrSelect)) =>
          /\ pcr_select.tag = "Ok"
          /\ {BitPosition(s) : s \in Selected}
                = WireBits(tss_pcr_select.pcrSelect)
    /\ (op = "into") =>
          {BitPosition(s) : s \in Selected}
              \subseteq WireBits(tss_pcr_select.pcrSelect)
    /\ (op = "new") =>
          (pcr_select.tag = "Ok" /\ Range(pcr_slots) \subseteq Selected)

C9_Witness ==
    /\ origin = "tss" /\ op = "into"
    /\ tss_pcr_select = [sizeofSelect |-> 1, pcrSelect |-> << 0, 0, 128, 0 >>]
    /\ Selected = {"Slot23"}

\* C10: every PcrSelect obtained by new, a successful parse or a copy has no
\* bit >= 24 selected and a size in 1..4; every serialized TPMS_PCR_SELECT has
\* sizeofSelect in 1..4 and pcrSelect[3] = 0 and parses back successfully.
C10_SelectInvariant ==
    /\ pcr_select.tag = "Ok" =>
          /\ pcr_select.value.selected_pcrs \subseteq 0..23
          /\ SizeNumber(pcr_select.value.size_of_select) \in 1..4
    /\ (op = "into") =>
          /\ tss_pcr_select.sizeofSelect \in 1..4
          /\ tss_pcr_select.pcrSelect[4] = 0
          /\ PcrSelectTryFrom(tss_pcr_select).tag = "Ok"
    /\ (op = "try_from" /\ origin = "new") => pcr_select.tag = "Ok"

C10_Witness ==
    /\ origin = "tss" /\ op = "copy"
    /\ tss_pcr_select.sizeofSelect = 4
    /\ pcr_select.value.selected_pcrs = 0..23
====
